---- MODULE Spec2Model ----
(***************************************************************************)
(* Model of the adaptive location sharing agent: the send decision         *)
(* (shouldSendLocation), the delivery pipeline (sendPayload), the durable  *)
(* buffer (saveBuffer / getBuffer / clearBuffer over AsyncStorage) and the *)
(* periodic flush (flushBuffer).                                           *)
(*                                                                         *)
(* Every async function is a frame with a program counter; one action is   *)
(* the code that runs between two awaits.  The outcome of each awaited     *)
(* external call (connectivity query, credential lookup, fetch, storage    *)
(* read / write / remove) is an input chosen with \E.                      *)
(*                                                                         *)
(* Units: latitude / longitude in 1e-5 degrees, distances in millimetres,  *)
(* speeds in cm/s, times in milliseconds (as in the code).                 *)
(***************************************************************************)
EXTENDS Integers, Sequences, FiniteSets, TLC

VARIABLES
  storage,           \* AsyncStorage item under BUFFER_KEY: Null or a JSON text
  lastSentLocation,  \* module variable of locationService: Null or {lat, lon, timestamp}
  sp,                \* sendPayload frame of each caller
  fl,                \* flushBuffer frame
  pending,           \* samples the location sources have not delivered yet
  accepted,          \* history: payloads handed to sendPayload by a sample handler
  confirmed,         \* history: payloads the collector answered 2xx for
  userCleared,       \* history: the user cleared the buffer
  faults,            \* number of storage calls that threw
  batch,             \* locations of the background task's batch still to process
  healthy,           \* the network, the collector and the stores answer from now on
  tr                 \* TrackingScreen state, the foreground subscription and toggleTracking's frame

vars == <<storage, lastSentLocation, sp, fl, pending, accepted, confirmed,
          userCleared, faults, batch, healthy, tr>>

----------------------------------------------------------------------------
(* Bounds of the model *)

MaxStorageFaults == 1
MaxBufferLen == 4
MaxBatchLen == 3

----------------------------------------------------------------------------
(* Values *)

Null == [null |-> TRUE]

\* a number, and the values that are not one: undefined and NaN
Num(n) == [num |-> n]
Undefined == [undefined |-> TRUE]
NaN == [nan |-> TRUE]

\* JSON.stringify of one payload: a property whose value is undefined is left
\* out, NaN is written as null
jsonObject(payload) ==
  IF payload.speed = Undefined
    THEN [k \in DOMAIN payload \ {"speed"} |-> payload[k]]
  ELSE IF payload.speed = NaN THEN [payload EXCEPT !.speed = Null]
  ELSE payload

\* JSON.stringify / JSON.parse of the buffer array
JSONstringify(arr) == [json |-> [i \in 1..Len(arr) |-> jsonObject(arr[i])]]
JSONparse(text) == text.json

\* new Date(ms).toISOString() and new Date(iso).getTime(), for whole milliseconds
toISOString(ms) == [iso |-> ms]
getTime(isoText) == isoText.iso

Minute == 60 * 1000

\* Location objects the sources deliver (expo-location LocationObject)
LocA == [coords |-> [latitude |-> 0, longitude |-> 0, speed |-> Num(0), accuracy |-> 5],
         timestamp |-> 0]
LocB == [coords |-> [latitude |-> 0, longitude |-> 20, speed |-> Num(0), accuracy |-> 5],
         timestamp |-> 16 * Minute]
LocC == [coords |-> [latitude |-> 0, longitude |-> 22, speed |-> Num(700), accuracy |-> 5],
         timestamp |-> 16 * Minute + 5 * 1000]
Locations == {LocA, LocB, LocC}

\* a delivered location without coords: destructuring it throws a TypeError
Malformed == [coords |-> Undefined, timestamp |-> 0]
WellFormed(location) == location.coords # Undefined

\* the batches the background task can be called with: sequences of distinct
\* locations
BatchesOf(locations) ==
  UNION {{b \in [1..n -> locations] : \A i, j \in 1..n : b[i] = b[j] => i = j} :
           n \in 1..MaxBatchLen}

\* Locations for the decision alone: around the 10 m threshold (9e-5 degrees
\* are 10.008 m), around each speed threshold, and around each interval after
\* the time of the last confirmed send, and before it
Sample(lat, lon, speed, timestamp) ==
  [coords |-> [latitude |-> lat, longitude |-> lon, speed |-> speed, accuracy |-> 5],
   timestamp |-> timestamp]
SentAt == 20 * Minute
SentSamples == {Sample(0, 0, Num(0), SentAt), Sample(0, 9, Num(300), SentAt + Minute)}
SampleLats == {0, 6}
SampleLons == {0, 5, 8, 9, 20}
SampleSpeeds ==
  {Null, Undefined, NaN, Num(-100), Num(0), Num(49), Num(50), Num(199), Num(200),
   Num(300), Num(599), Num(600), Num(1000), Num(1100)}
SampleTimes ==
  {SentAt - Minute, SentAt, SentAt + Minute - 1, SentAt + Minute,
   SentAt + 2 * Minute - 1, SentAt + 2 * Minute, SentAt + 5 * Minute - 1,
   SentAt + 5 * Minute, SentAt + 15 * Minute - 1, SentAt + 15 * Minute}
SampleGrid ==
  {Sample(lat, lon, speed, timestamp) :
     lat \in SampleLats, lon \in SampleLons, speed \in SampleSpeeds,
     timestamp \in SampleTimes}

----------------------------------------------------------------------------
(* locationService: constants and pure functions *)

DISTANCE_THRESHOLD == 10 * 1000
TIME_INTERVALS == [STILL |-> 15 * Minute, WALKING |-> 5 * Minute,
                   BIKE |-> 2 * Minute, VEHICLE |-> Minute]
SPEED_THRESHOLDS == [STILL |-> 50, WALKING |-> 200, BIKE |-> 600]

RECURSIVE SqrtBetween(_, _, _)
SqrtBetween(n, lo, hi) ==
  IF lo >= hi THEN lo
  ELSE LET mid == (lo + hi + 1) \div 2
       IN IF mid * mid <= n THEN SqrtBetween(n, mid, hi)
                            ELSE SqrtBetween(n, lo, mid - 1)
Sqrt(n) == SqrtBetween(n, 0, 46340)

\* R * pi / 180 * 1e-5 metres, in millimetres: the arc of 1e-5 degrees
ArcUnit == 1112

\* Haversine distance in millimetres.  For the points of the model (within
\* 1e-3 degrees of the equator and of each other) sin x = x, cos x = 1 and
\* atan2(sqrt a, sqrt(1 - a)) = sqrt a hold to 1e-9 relative error, which
\* leaves R * sqrt(dphi^2 + dlambda^2).
haversineDistance(lat1, lon1, lat2, lon2) ==
  LET dphi == (lat2 - lat1) * ArcUnit
      dlambda == (lon2 - lon1) * ArcUnit
  IN Sqrt(dphi * dphi + dlambda * dlambda)

\* `value < n` for a number n: null converts to 0, undefined and NaN to NaN,
\* and a comparison with NaN is false
lessThan(value, n) ==
  IF value = Null THEN 0 < n
  ELSE IF value \in {Undefined, NaN} THEN FALSE
  ELSE value.num < n

\* faulty variant: each threshold belongs to the slower band
intervalThresholdInSlowerBand(speed) ==
  IF lessThan(speed, SPEED_THRESHOLDS.STILL + 1) THEN TIME_INTERVALS.STILL
  ELSE IF lessThan(speed, SPEED_THRESHOLDS.WALKING + 1) THEN TIME_INTERVALS.WALKING
  ELSE IF lessThan(speed, SPEED_THRESHOLDS.BIKE + 1) THEN TIME_INTERVALS.BIKE
  ELSE TIME_INTERVALS.VEHICLE

\* faulty variant: the walking and the bike interval are exchanged
intervalBandsExchanged(speed) ==
  IF lessThan(speed, SPEED_THRESHOLDS.STILL) THEN TIME_INTERVALS.STILL
  ELSE IF lessThan(speed, SPEED_THRESHOLDS.WALKING) THEN TIME_INTERVALS.BIKE
  ELSE IF lessThan(speed, SPEED_THRESHOLDS.BIKE) THEN TIME_INTERVALS.WALKING
  ELSE TIME_INTERVALS.VEHICLE

intervalFromSpeed(speed) ==
  IF lessThan(speed, SPEED_THRESHOLDS.STILL) THEN TIME_INTERVALS.STILL
  ELSE IF lessThan(speed, SPEED_THRESHOLDS.WALKING) THEN TIME_INTERVALS.WALKING
  ELSE IF lessThan(speed, SPEED_THRESHOLDS.BIKE) THEN TIME_INTERVALS.BIKE
  ELSE TIME_INTERVALS.VEHICLE

\* The payload both handlers build from a location
MakePayload(location) ==
  [userId |-> "user-123",
   lat |-> location.coords.latitude,
   lon |-> location.coords.longitude,
   speed |-> IF location.coords.speed # Null THEN location.coords.speed ELSE Num(0),
   accuracy |-> location.coords.accuracy,
   timestamp |-> toISOString(location.timestamp)]

\* faulty variant: the sign of the difference is dropped
timeSinceAbs(timestamp, last) ==
  IF timestamp >= last.timestamp THEN timestamp - last.timestamp
  ELSE last.timestamp - timestamp

\* `timestamp - lastSentLocation.timestamp`, both in milliseconds
timeSince(timestamp, last) == timestamp - last.timestamp

\* faulty variant: either condition is enough
shouldSendEither(location, last) ==
  LET currentSpeed == IF location.coords.speed # Null THEN location.coords.speed ELSE Num(0)
      currentInterval == intervalFromSpeed(currentSpeed)
  IN IF last = Null THEN TRUE
     ELSE LET distance == haversineDistance(last.lat, last.lon,
                                            location.coords.latitude,
                                            location.coords.longitude)
              timeSinceLast == timeSince(location.timestamp, last)
          IN distance >= DISTANCE_THRESHOLD \/ timeSinceLast >= currentInterval

\* faulty variant: the first location is held back
shouldSendNotFirst(location, last) ==
  IF last = Null THEN FALSE ELSE shouldSendEither(location, last)

\* shouldSendLocation(location), reading the module variable `last`
shouldSendLocation(location, last) ==
  LET currentSpeed == IF location.coords.speed # Null THEN location.coords.speed ELSE Num(0)
      currentInterval == intervalFromSpeed(currentSpeed)
  IN IF last = Null THEN TRUE
     ELSE LET distance == haversineDistance(last.lat, last.lon,
                                            location.coords.latitude,
                                            location.coords.longitude)
              timeSinceLast == timeSince(location.timestamp, last)
          IN distance >= DISTANCE_THRESHOLD /\ timeSinceLast >= currentInterval

\* faulty variant: the inline decision accepts on either condition
handleLocationDecisionEither(location, last) ==
  LET payload == MakePayload(location)
  IN IF last = Null THEN TRUE
     ELSE \/ haversineDistance(last.lat, last.lon, payload.lat, payload.lon)
               >= DISTANCE_THRESHOLD
          \/ timeSince(location.timestamp, last) >= intervalFromSpeed(payload.speed)

\* The decision handleLocationUpdate computes inline
handleLocationDecision(location, last) ==
  LET payload == MakePayload(location)
  IN IF last = Null THEN TRUE
     ELSE LET distance == haversineDistance(last.lat, last.lon, payload.lat, payload.lon)
              timeSinceLast == timeSince(location.timestamp, last)
              currentInterval == intervalFromSpeed(payload.speed)
          IN distance >= DISTANCE_THRESHOLD /\ timeSinceLast >= currentInterval

----------------------------------------------------------------------------
(* Frames *)

Handlers == {"fg", "bg"}          \* handleLocationUpdate, the background task
Callers == Handlers \cup {"flush"} \* who calls sendPayload

IdleCall ==
  [pc |-> "idle", payload |-> Null, site |-> "none", existing |-> <<>>,
   ret |-> "none", net |-> "none", resp |-> "none", rd |-> "none", wr |-> "none",
   pre |-> Null, preLast |-> Null, location |-> Null, seen |-> Null]

\* sendPayload(payload) up to its first await (the connectivity query); pre and
\* preLast remember the store and the last-sent state at the call
NewCall(payload) ==
  [IdleCall EXCEPT !.pc = "net", !.payload = payload, !.pre = storage,
                   !.preLast = lastSentLocation]

IdleFlush ==
  [pc |-> "idle", buffer |-> <<>>, i |-> 0, net |-> "none",
   firstFailed |-> 0, fetches |-> 0, lateFetches |-> 0, appends |-> 0,
   pre |-> Null, preLast |-> Null, cleared |-> "none", during |-> Null]

\* an awaited AsyncStorage call resolves, or throws (at most MaxStorageFaults times)
\* once the environment is healthy every awaited external call succeeds
Permits(out) == healthy => out \in {"connected", "ok"}

StorageCall(out) ==
  /\ Permits(out)
  /\ out = "throw" => faults < MaxStorageFaults
  /\ faults' = IF out = "throw" THEN faults + 1 ELSE faults

\* getBuffer's `buffer ? JSON.parse(buffer) : []` for the item read
StoredBuffer(item) == IF item # Null THEN JSONparse(item) ELSE <<>>

\* getBuffer: the stored text parsed, [] when the item is absent or the read throws
getBuffer(out) ==
  IF out = "ok" THEN StoredBuffer(storage) ELSE <<>>

\* getBufferCount: the length getBuffer() returned
getBufferCount(out) == Len(getBuffer(out))

\* faulty variant: the payload is put at the front of the list
pushPayloadFront(existingBuffer, payload) == <<payload>> \o existingBuffer

\* saveBuffer's existingBuffer.push(payload)
pushPayload(existingBuffer, payload) == Append(existingBuffer, payload)

\* faulty variant: saveBuffer has no catch block: a storage error leaves the call
saveBufferRethrow == "throw"

\* saveBuffer's catch block: logs, and the call returns normally
saveBufferCatch == "return"

\* faulty variant: the result of the connectivity query is not looked at
afterNetworkStateIgnored(out) ==
  IF out = "throw" THEN "catch" ELSE "online"

\* the branch of sendPayload after the connectivity query
afterNetworkState(out) ==
  IF out = "throw" THEN "catch"
  ELSE IF out = "disconnected" THEN "offline"
  ELSE "online"

\* faulty variant: the time of the send is stored, not the payload's own time
lastSentAtSendTime(payload) ==
  [lat |-> payload.lat, lon |-> payload.lon,
   timestamp |-> getTime(payload.timestamp) + Minute]

\* what sendPayload stores on a 2xx response
lastSentFrom(payload) ==
  [lat |-> payload.lat, lon |-> payload.lon, timestamp |-> getTime(payload.timestamp)]

\* faulty variant: the state is stored before the response is looked at
lastSentWhateverResponse(out, payload, last) == lastSentFrom(payload)

\* lastSentLocation after the response to fetch
lastSentAfterFetch(out, payload, last) ==
  IF out = "ok" THEN lastSentFrom(payload) ELSE last

\* sendPayload calls saveBuffer(payload): from the try block or from the catch block
EnterSaveBuffer(f, site) == [f EXCEPT !.pc = "read", !.site = site]

\* sendPayload after saveBuffer completed with `how` ("return" or "throw")
AfterSaveBuffer(f, how) ==
  IF how = "return" THEN [f EXCEPT !.pc = "done", !.ret = "false"]
  ELSE IF f.site = "try" THEN EnterSaveBuffer(f, "catch")
  ELSE [f EXCEPT !.pc = "done", !.ret = "rejected"]

Quiescent ==
  /\ \A c \in Callers : sp[c].pc = "idle"
  /\ fl.pc = "idle"
  /\ batch = <<>>

----------------------------------------------------------------------------
(* Initial state *)

\* the screen after mount: not tracking, no subscription, no toggle in progress.
\* locationSubscription is "none" (null), "live" or "removed" (an object whose
\* remove() was called); watchers counts the subscriptions that deliver samples.
NotTracking ==
  [pc |-> "idle", isTracking |-> FALSE, permissionStatus |-> "unknown",
   locationSubscription |-> "none", watchers |-> 0, background |-> FALSE]

Init ==
  /\ storage = Null
  /\ lastSentLocation = Null
  /\ sp = [c \in Callers |-> IdleCall]
  /\ fl = IdleFlush
  /\ pending = Locations
  /\ accepted = {}
  /\ confirmed = {}
  /\ userCleared = FALSE
  /\ faults = 0
  /\ batch = <<>>
  /\ healthy = FALSE
  /\ tr = NotTracking

\* the state after construction when the sources will deliver two samples
\* 2 m and 5 s apart
InitPair ==
  /\ storage = Null
  /\ lastSentLocation = Null
  /\ sp = [c \in Callers |-> IdleCall]
  /\ fl = IdleFlush
  /\ pending = {LocB, LocC}
  /\ accepted = {}
  /\ confirmed = {}
  /\ userCleared = FALSE
  /\ faults = 0
  /\ batch = <<>>
  /\ healthy = FALSE
  /\ tr = NotTracking

----------------------------------------------------------------------------
(* Sample handlers *)

\* the frame of a handler that works on `location` and decided on it while
\* lastSentLocation was `last`
Handling(f, location, last) == [f EXCEPT !.location = location, !.seen = last]

\* handleLocationUpdate(location): decides inline and calls sendPayload
FgLocationUpdate(location) ==
  /\ sp["fg"].pc = "idle"
  /\ location \in pending
  /\ pending' = pending \ {location}
  /\ IF handleLocationDecision(location, lastSentLocation)
       THEN /\ sp' = [sp EXCEPT !["fg"] =
                       Handling(NewCall(MakePayload(location)), location, lastSentLocation)]
            /\ accepted' = accepted \cup {MakePayload(location)}
       ELSE /\ sp' = [sp EXCEPT !["fg"] =
                       Handling([IdleCall EXCEPT !.pc = "skipped"], location,
                                lastSentLocation)]
            /\ UNCHANGED accepted
  /\ UNCHANGED <<tr, batch, healthy, storage, lastSentLocation, fl, confirmed, userCleared, faults>>

\* TaskManager calls the background task with a batch of locations, or with an
\* error, on which the task returns at once
BgTask(locations, error) ==
  /\ sp["bg"].pc = "idle"
  /\ batch = <<>>
  /\ \A i \in 1..Len(locations) : locations[i] \in pending
  /\ IF error # Null
       THEN /\ batch' = <<>>
            /\ pending' = pending \ {locations[i] : i \in 1..Len(locations)}
       ELSE /\ batch' = locations
            /\ UNCHANGED pending
  /\ UNCHANGED <<tr, healthy, storage, lastSentLocation, sp, fl, accepted, confirmed,
                 userCleared, faults>>

\* faulty variant: a throw ends the task
abandonBatch(locations) == <<>>

\* the locations left for the loop when processing the first one threw inside
\* the try block
afterLocationError(locations) ==
  IF locations = <<>> THEN <<>> ELSE Tail(locations)

\* the background task works on the next location of its batch, up to
\* `await shouldSendLocation(location)`; a location that makes the try block
\* throw is logged by the catch block and the loop goes on
BgDecide(location) ==
  /\ sp["bg"].pc = "idle"
  /\ location \in pending
  /\ batch # <<>> => location = Head(batch)
  /\ pending' = pending \ {location}
  /\ IF ~WellFormed(location)
       THEN /\ batch' = afterLocationError(batch)
            /\ UNCHANGED sp
       ELSE /\ batch' = IF batch = <<>> THEN <<>> ELSE Tail(batch)
            /\ IF shouldSendLocation(location, lastSentLocation)
                 THEN sp' = [sp EXCEPT !["bg"] =
                               Handling([IdleCall EXCEPT !.pc = "decided",
                                                         !.payload = MakePayload(location)],
                                        location, lastSentLocation)]
                 ELSE sp' = [sp EXCEPT !["bg"] =
                               Handling([IdleCall EXCEPT !.pc = "skipped"], location,
                                        lastSentLocation)]
  /\ UNCHANGED <<tr, healthy, storage, lastSentLocation, fl, accepted, confirmed, userCleared, faults>>

\* the background task resumes with shouldSend = true and calls sendPayload
BgSend ==
  /\ sp["bg"].pc = "decided"
  /\ sp' = [sp EXCEPT !["bg"] =
              Handling(NewCall(sp["bg"].payload), sp["bg"].location, sp["bg"].seen)]
  /\ accepted' = accepted \cup {sp["bg"].payload}
  /\ UNCHANGED <<tr, batch, healthy, storage, lastSentLocation, fl, pending, confirmed, userCleared, faults>>

\* the handler resumes after `await sendPayload(payload)`, or has skipped the
\* location, and finishes
HandlerReturn(h) ==
  /\ sp[h].pc \in {"done", "skipped"}
  /\ sp' = [sp EXCEPT ![h] = IdleCall]
  /\ UNCHANGED <<tr, batch, healthy, storage, lastSentLocation, fl, pending, accepted, confirmed, userCleared, faults>>

----------------------------------------------------------------------------
(* sendPayload, one action per await *)

\* await Network.getNetworkStateAsync() resolves or throws
SendNetworkState(c, out) ==
  /\ sp[c].pc = "net"
  /\ Permits(out)
  /\ LET f == [sp[c] EXCEPT !.net = out]
         branch == afterNetworkState(out)
     IN sp' = [sp EXCEPT ![c] =
                 IF branch = "online" THEN [f EXCEPT !.pc = "token"]
                 ELSE IF branch = "offline" THEN EnterSaveBuffer(f, "try")
                 ELSE EnterSaveBuffer(f, "catch")]
  /\ UNCHANGED <<tr, batch, healthy, storage, lastSentLocation, fl, pending, accepted, confirmed,
                 userCleared, faults>>

\* await SecureStore.getItemAsync('auth_token') resolves (fetch is issued) or throws
SendAuthToken(c, out) ==
  /\ sp[c].pc = "token"
  /\ Permits(out)
  /\ sp' = [sp EXCEPT ![c] =
              IF out = "ok" THEN [@ EXCEPT !.pc = "fetch", !.resp = "pending"]
              ELSE EnterSaveBuffer(@, "catch")]
  /\ UNCHANGED <<tr, batch, healthy, storage, lastSentLocation, fl, pending, accepted, confirmed,
                 userCleared, faults>>

\* await fetch(...) resolves with response.ok, resolves without it, or throws
SendFetch(c, out) ==
  /\ sp[c].pc = "fetch"
  /\ Permits(out)
  /\ lastSentLocation' = lastSentAfterFetch(out, sp[c].payload, lastSentLocation)
  /\ LET f == [sp[c] EXCEPT !.resp = out]
     IN sp' = [sp EXCEPT ![c] =
                 IF out = "ok" THEN [f EXCEPT !.pc = "done", !.ret = "true"]
                 ELSE IF out = "fail" THEN EnterSaveBuffer(f, "try")
                 ELSE EnterSaveBuffer(f, "catch")]
  /\ confirmed' = IF out = "ok" THEN confirmed \cup {sp[c].payload} ELSE confirmed
  /\ UNCHANGED <<tr, batch, healthy, storage, fl, pending, accepted, userCleared, faults>>

\* saveBuffer: await getBuffer() returns; the payload is pushed and setItem issued
SaveGetItem(c, out) ==
  /\ sp[c].pc = "read"
  /\ StorageCall(out)
  /\ sp' = [sp EXCEPT ![c] =
              [@ EXCEPT !.pc = "write", !.rd = out,
                        !.existing = pushPayload(getBuffer(out), sp[c].payload)]]
  /\ UNCHANGED <<tr, batch, healthy, storage, lastSentLocation, fl, pending, accepted, confirmed,
                 userCleared>>

\* saveBuffer: await AsyncStorage.setItem(...) resolves or throws; sendPayload goes on.
\* A running flushBuffer that has read the buffer notes the payload a handler's
\* call stores meanwhile (fl.during).
SaveSetItem(c, out) ==
  /\ sp[c].pc = "write"
  /\ Len(sp[c].existing) <= MaxBufferLen
  /\ StorageCall(out)
  /\ storage' = IF out = "ok" THEN JSONstringify(sp[c].existing) ELSE storage
  /\ sp' = [sp EXCEPT ![c] =
              AfterSaveBuffer([@ EXCEPT !.wr = out],
                              IF out = "ok" THEN "return" ELSE saveBufferCatch)]
  /\ fl' = IF c \in Handlers /\ out = "ok" /\ fl.pc \in {"loop", "clear"}
             THEN [fl EXCEPT !.during = sp[c].payload]
             ELSE fl
  /\ UNCHANGED <<tr, batch, healthy, lastSentLocation, pending, accepted, confirmed, userCleared>>

----------------------------------------------------------------------------
(* flushBuffer *)

\* the timer calls flushBuffer(), which runs to its connectivity query
FlushStart ==
  /\ fl.pc = "idle"
  /\ fl' = [IdleFlush EXCEPT !.pc = "net", !.pre = storage, !.preLast = lastSentLocation]
  /\ UNCHANGED <<tr, batch, healthy, storage, lastSentLocation, sp, pending, accepted, confirmed,
                 userCleared, faults>>

\* faulty variant: the run goes on whatever the connectivity
flushIgnoresNetworkState(out) == "read"

\* `if (!networkState.isConnected) return;`, a throw goes to the catch
flushAfterNetworkState(out) == IF out = "connected" THEN "read" ELSE "done"

\* await Network.getNetworkStateAsync(): not connected or a throw ends the run
FlushNetworkState(out) ==
  /\ fl.pc = "net"
  /\ Permits(out)
  /\ fl' = [fl EXCEPT !.net = out, !.pc = flushAfterNetworkState(out)]
  /\ UNCHANGED <<tr, batch, healthy, storage, lastSentLocation, sp, pending, accepted, confirmed,
                 userCleared, faults>>

\* faulty variant: the loop walks the snapshot from its end
loopPayloadReversed(buffer, i) == buffer[Len(buffer) + 1 - i]

\* `for (const payload of buffer)`: the payload of the i-th iteration
loopPayload(buffer, i) == buffer[i]

\* await getBuffer() returns; with a non-empty buffer the loop calls sendPayload
\* for its first element
FlushGetBuffer(out) ==
  /\ fl.pc = "read"
  /\ StorageCall(out)
  /\ LET buffer == getBuffer(out)
     IN IF Len(buffer) > 0
          THEN /\ fl' = [fl EXCEPT !.pc = "loop", !.buffer = buffer, !.i = 1]
               /\ sp' = [sp EXCEPT !["flush"] = NewCall(loopPayload(buffer, 1))]
          ELSE /\ fl' = [fl EXCEPT !.pc = "done"]
               /\ UNCHANGED sp
  /\ UNCHANGED <<tr, batch, healthy, storage, lastSentLocation, pending, accepted, confirmed,
                 userCleared>>

\* history of a run, updated when sendPayload(buffer[i]) has completed as frame f:
\* the index of the first payload whose send did not succeed, the number of
\* fetches issued, of fetches issued after a failed send, and of payloads the
\* run's sendPayload calls wrote to the store
FlushRecord(run, f) ==
  [run EXCEPT
     !.firstFailed = IF @ = 0 /\ f.ret # "true" THEN run.i ELSE @,
     !.fetches = IF f.resp # "none" THEN @ + 1 ELSE @,
     !.lateFetches = IF run.firstFailed # 0 /\ f.resp # "none" THEN @ + 1 ELSE @,
     !.appends = IF f.wr = "ok" THEN @ + 1 ELSE @]

\* faulty variant: the run ends after the last payload without clearBuffer()
flushLoopNoClear(ret, i, n) ==
  IF ret = "rejected" THEN "catch"
  ELSE IF i < n THEN "next"
  ELSE "catch"

\* what the loop does once sendPayload(buffer[i]) has returned `ret`
flushLoopAfter(ret, i, n) ==
  IF ret = "rejected" THEN "catch"
  ELSE IF i < n THEN "next"
  ELSE "clear"

\* await sendPayload(payload) completes: the loop goes on to the next payload,
\* or leaves the loop and calls clearBuffer()
FlushNext ==
  /\ fl.pc = "loop"
  /\ sp["flush"].pc = "done"
  /\ LET f == sp["flush"]
         log == FlushRecord(fl, f)
         todo == flushLoopAfter(f.ret, fl.i, Len(fl.buffer))
     IN IF todo = "catch"
          THEN /\ fl' = [log EXCEPT !.pc = "done"]
               /\ sp' = [sp EXCEPT !["flush"] = IdleCall]
          ELSE IF todo = "next"
          THEN /\ fl' = [log EXCEPT !.i = fl.i + 1]
               /\ sp' = [sp EXCEPT !["flush"] =
                               NewCall(loopPayload(fl.buffer, fl.i + 1))]
          ELSE /\ fl' = [log EXCEPT !.pc = "clear"]
               /\ sp' = [sp EXCEPT !["flush"] = IdleCall]
  /\ UNCHANGED <<tr, batch, healthy, storage, lastSentLocation, pending, accepted, confirmed,
                 userCleared, faults>>

\* clearBuffer: await AsyncStorage.removeItem(BUFFER_KEY) resolves or throws
FlushClear(out) ==
  /\ fl.pc = "clear"
  /\ StorageCall(out)
  /\ storage' = IF out = "ok" THEN Null ELSE storage
  /\ fl' = [fl EXCEPT !.pc = "done", !.cleared = out]
  /\ UNCHANGED <<tr, batch, healthy, lastSentLocation, sp, pending, accepted, confirmed, userCleared>>

\* the promise of flushBuffer() resolves
FlushReturn ==
  /\ fl.pc = "done"
  /\ fl' = IdleFlush
  /\ UNCHANGED <<tr, batch, healthy, storage, lastSentLocation, sp, pending, accepted, confirmed, userCleared, faults>>

----------------------------------------------------------------------------
(* User control *)

\* clearLocationBuffer: clearBuffer() removes the item, or the removal throws
UserClear(out) ==
  /\ StorageCall(out)
  /\ userCleared' = TRUE
  /\ storage' = IF out = "ok" THEN Null ELSE storage
  /\ UNCHANGED <<tr, batch, healthy, lastSentLocation, sp, fl, pending, accepted, confirmed>>

\* faulty variant: the restart also loses the stored item
ProcessRestartLosesItems ==
  /\ lastSentLocation' = Null
  /\ sp' = [c \in Callers |-> IdleCall]
  /\ fl' = IdleFlush
  /\ storage' = Null
  /\ UNCHANGED <<tr, batch, healthy, pending, accepted, confirmed, userCleared, faults>>

\* the process is stopped and the app starts again: the module state is that
\* of a fresh load and no call is in progress; AsyncStorage keeps its items
ProcessRestart ==
  /\ lastSentLocation' = Null
  /\ sp' = [c \in Callers |-> IdleCall]
  /\ fl' = IdleFlush
  /\ UNCHANGED <<tr, batch, healthy, storage, pending, accepted, confirmed, userCleared, faults>>

\* stopForegroundLocationUpdates: remove() and forget the subscription
stopForegroundLocationUpdates(t) ==
  IF t.locationSubscription # "none"
    THEN [t EXCEPT !.watchers = IF t.locationSubscription = "live" THEN @ - 1 ELSE @,
                   !.locationSubscription = "none"]
    ELSE t

\* startForegroundLocationUpdates before its await: remove() an existing
\* subscription; the variable keeps the removed object
removeExistingSubscription(t) ==
  IF t.locationSubscription # "none"
    THEN [t EXCEPT !.watchers = IF t.locationSubscription = "live" THEN @ - 1 ELSE @,
                   !.locationSubscription = "removed"]
    ELSE t

\* toggleTracking is called and runs to its first await, or returns when the
\* permissions are not granted
ToggleTracking ==
  /\ tr.pc = "idle"
  /\ tr' = IF tr.isTracking
             THEN [stopForegroundLocationUpdates(tr) EXCEPT !.pc = "stopBackground"]
           ELSE IF tr.permissionStatus # "granted" THEN tr
           ELSE [removeExistingSubscription(tr) EXCEPT !.pc = "watch"]
  /\ UNCHANGED <<storage, lastSentLocation, sp, fl, pending, accepted, confirmed,
                 userCleared, faults, batch, healthy>>

\* await Location.watchPositionAsync(...) resolves with a subscription, or
\* throws into toggleTracking's catch block
ToggleWatchPosition(out) ==
  /\ tr.pc = "watch"
  /\ tr' = IF out = "ok"
             THEN [tr EXCEPT !.locationSubscription = "live", !.watchers = @ + 1,
                             !.pc = "startBackground"]
             ELSE [tr EXCEPT !.pc = "idle"]
  /\ UNCHANGED <<storage, lastSentLocation, sp, fl, pending, accepted, confirmed,
                 userCleared, faults, batch, healthy>>

\* await Location.startLocationUpdatesAsync(...) resolves and
\* setIsTracking(true) runs, or it throws into the catch block
ToggleStartBackground(out) ==
  /\ tr.pc = "startBackground"
  /\ tr' = IF out = "ok"
             THEN [tr EXCEPT !.background = TRUE, !.isTracking = TRUE, !.pc = "idle"]
             ELSE [tr EXCEPT !.pc = "idle"]
  /\ UNCHANGED <<storage, lastSentLocation, sp, fl, pending, accepted, confirmed,
                 userCleared, faults, batch, healthy>>

\* await Location.stopLocationUpdatesAsync(...) resolves or throws (caught);
\* then setIsTracking(false)
ToggleStopBackground(out) ==
  /\ tr.pc = "stopBackground"
  /\ tr' = [tr EXCEPT !.background = IF out = "ok" THEN FALSE ELSE @,
                      !.isTracking = FALSE, !.pc = "idle"]
  /\ UNCHANGED <<storage, lastSentLocation, sp, fl, pending, accepted, confirmed,
                 userCleared, faults, batch, healthy>>

\* from now on the device is connected, the collector answers 2xx and the
\* stores answer
EnvRecovers ==
  /\ ~healthy
  /\ healthy' = TRUE
  /\ UNCHANGED <<tr, storage, lastSentLocation, sp, fl, pending, accepted, confirmed,
                 userCleared, faults, batch>>

----------------------------------------------------------------------------
(* Specifications *)

NetOutcomes == {"connected", "disconnected", "throw"}
FetchOutcomes == {"ok", "fail", "throw"}
IoOutcomes == {"ok", "throw"}

\* an operation is called
Starts ==
  \/ \E location \in Locations : FgLocationUpdate(location)
  \/ \E location \in Locations : BgDecide(location)
  \/ FlushStart
  \/ \E out \in IoOutcomes : UserClear(out)

\* an awaited call of a sendPayload call made by one of `callers` completes
CallSteps(callers) ==
  \/ \E c \in callers, out \in NetOutcomes : SendNetworkState(c, out)
  \/ \E c \in callers, out \in IoOutcomes : SendAuthToken(c, out)
  \/ \E c \in callers, out \in FetchOutcomes : SendFetch(c, out)
  \/ \E c \in callers, out \in IoOutcomes : SaveGetItem(c, out)
  \/ \E c \in callers, out \in IoOutcomes : SaveSetItem(c, out)

\* an awaited call of a running flushBuffer completes
FlushSteps ==
  \/ \E out \in NetOutcomes : FlushNetworkState(out)
  \/ \E out \in IoOutcomes : FlushGetBuffer(out)
  \/ FlushNext
  \/ \E out \in IoOutcomes : FlushClear(out)
  \/ FlushReturn

\* an awaited call of a running operation completes
Steps ==
  \/ BgSend
  \/ \E h \in Handlers : HandlerReturn(h)
  \/ CallSteps(Callers)
  \/ FlushSteps

\* operations run one at a time: a call starts only when no call is in progress
Next ==
  \/ \E location \in Locations : Quiescent /\ FgLocationUpdate(location)
  \/ \E location \in Locations : Quiescent /\ BgDecide(location)
  \/ Quiescent /\ FlushStart
  \/ \E out \in IoOutcomes : Quiescent /\ UserClear(out)
  \/ Steps

Spec == Init /\ [][Next]_vars

\* the two sample sources interleave at their awaits; no flush, no user action
NextHandlers ==
  \/ \E location \in Locations : FgLocationUpdate(location)
  \/ \E location \in Locations : BgDecide(location)
  \/ BgSend
  \/ \E h \in Handlers : HandlerReturn(h)
  \/ CallSteps(Handlers)

SpecHandlers == Init /\ [][NextHandlers]_vars

\* the foreground handler and the flush timer interleave at their awaits
NextFlushRace ==
  \/ \E location \in Locations : FgLocationUpdate(location)
  \/ HandlerReturn("fg")
  \/ FlushStart
  \/ CallSteps({"fg", "flush"})
  \/ FlushSteps

SpecFlushRace == InitPair /\ [][NextFlushRace]_vars

\* operations run one at a time and the process may be stopped and started
\* again at any point
NextRestart == Next \/ ProcessRestart

SpecRestart == InitPair /\ [][NextRestart]_vars

\* no pending sample is older than `location`
Earliest(location) ==
  \A other \in pending : location.timestamp <= other.timestamp

\* operations run one at a time and the sources deliver the samples in the
\* order of their timestamps
NextInOrder ==
  \/ \E location \in Locations :
       Quiescent /\ Earliest(location) /\ FgLocationUpdate(location)
  \/ \E location \in Locations :
       Quiescent /\ Earliest(location) /\ BgDecide(location)
  \/ Quiescent /\ FlushStart
  \/ Steps

SpecInOrder == Init /\ [][NextInOrder]_vars

\* the background task is called with batches, one call at a time
InitBatch ==
  /\ storage = Null
  /\ lastSentLocation = Null
  /\ sp = [c \in Callers |-> IdleCall]
  /\ fl = IdleFlush
  /\ pending = Locations \cup {Malformed}
  /\ accepted = {}
  /\ confirmed = {}
  /\ userCleared = FALSE
  /\ faults = 0
  /\ batch = <<>>
  /\ healthy = FALSE
  /\ tr = NotTracking

NextBatch ==
  \/ \E locations \in BatchesOf(pending), error \in {Null, [message |-> "error"]} :
       BgTask(locations, error)
  \/ batch # <<>> /\ BgDecide(Head(batch))
  \/ BgSend
  \/ HandlerReturn("bg")
  \/ CallSteps({"bg"})

SpecBatch == InitBatch /\ [][NextBatch]_vars

\* the foreground handler and the flush timer, one operation at a time; at some
\* point the environment becomes healthy and stays so, the timer keeps firing
\* and every awaited call completes
NextLive ==
  \/ \E location \in Locations : Quiescent /\ FgLocationUpdate(location)
  \/ HandlerReturn("fg")
  \/ Quiescent /\ FlushStart
  \/ CallSteps({"fg", "flush"})
  \/ FlushSteps
  \/ EnvRecovers

SpecLive ==
  /\ InitPair
  /\ [][NextLive]_vars
  /\ WF_vars(EnvRecovers)
  /\ WF_vars(Quiescent /\ FlushStart)
  /\ WF_vars(HandlerReturn("fg") \/ CallSteps({"fg", "flush"}) \/ FlushSteps)

\* the user toggles tracking, one call at a time; a live subscription delivers
\* samples to handleLocationUpdate
InitTracking ==
  /\ storage = Null
  /\ lastSentLocation = Null
  /\ sp = [c \in Callers |-> IdleCall]
  /\ fl = IdleFlush
  /\ pending = {LocB, LocC}
  /\ accepted = {}
  /\ confirmed = {}
  /\ userCleared = FALSE
  /\ faults = 0
  /\ batch = <<>>
  /\ healthy = FALSE
  /\ \E status \in {"unknown", "granted"} :
       tr = [NotTracking EXCEPT !.permissionStatus = status]

NextTracking ==
  \/ ToggleTracking
  \/ \E out \in IoOutcomes : ToggleWatchPosition(out)
  \/ \E out \in IoOutcomes : ToggleStartBackground(out)
  \/ \E out \in IoOutcomes : ToggleStopBackground(out)
  \/ \E location \in Locations : tr.watchers > 0 /\ FgLocationUpdate(location)
  \/ HandlerReturn("fg")
  \/ CallSteps({"fg"})

SpecTracking == InitTracking /\ [][NextTracking]_vars

\* the decision alone: one location of the grid is delivered to a handler while
\* lastSentLocation is null or holds a confirmed send
InitDecide ==
  /\ storage = Null
  /\ sp = [c \in Callers |-> IdleCall]
  /\ fl = IdleFlush
  /\ userCleared = FALSE
  /\ faults = 0
  /\ batch = <<>>
  /\ healthy = FALSE
  /\ tr = NotTracking
  /\ \E location \in SampleGrid : pending = {location}
  /\ \E sent \in {{}} \cup {{MakePayload(sample)} : sample \in SentSamples} :
       /\ accepted = sent
       /\ confirmed = sent
       /\ lastSentLocation = IF sent = {} THEN Null
                             ELSE lastSentFrom(CHOOSE payload \in sent : TRUE)

NextDecide ==
  \/ \E location \in SampleGrid : FgLocationUpdate(location)
  \/ \E location \in SampleGrid : BgDecide(location)
  \/ \E h \in Handlers : HandlerReturn(h)

SpecDecide == InitDecide /\ [][NextDecide]_vars

\* operations interleave at their awaits
NextAsync == Starts \/ Steps

SpecAsync == Init /\ [][NextAsync]_vars

----------------------------------------------------------------------------
(* Properties *)

InBuffer(p) == \E i \in 1..Len(StoredBuffer(storage)) : StoredBuffer(storage)[i] = p

\* the location a payload was made from
SourceOf(payload) == CHOOSE location \in Locations : MakePayload(location) = payload

\* sendPayload's attempt was made while connected, or the query threw, and failed
FailedAttempt(f) ==
  /\ f.pc = "done"
  /\ f.net \in {"connected", "throw"}
  /\ f.resp # "ok"

\* both storage calls of the call's saveBuffer succeeded
Stored(f) == f.rd = "ok" /\ f.wr = "ok"

\* C1: in every quiescent state (no sendPayload or flushBuffer call in progress),
\* with no user clear and no storage call having failed, an accepted payload is
\* in the persisted buffer if and only if the collector has not confirmed it.
C1_BufferInvariant ==
  (Quiescent /\ ~userCleared /\ faults = 0) =>
    \A p \in accepted : InBuffer(p) <=> p \notin confirmed

\* C2: when a flushBuffer run made while connected has ended and the send of
\* buffer[k] was the first to fail, the persisted buffer is exactly
\* buffer[k..n], in the original order (no storage call having failed).
C2_PartialFlushKeepsSuffix ==
  (fl.pc = "done" /\ fl.net = "connected" /\ fl.firstFailed # 0 /\ faults = 0) =>
    StoredBuffer(storage) = SubSeq(fl.buffer, fl.firstFailed, Len(fl.buffer))

\* C3: within one flushBuffer run no fetch is issued for a payload that comes
\* after a payload whose send failed.
C3_FlushStopsAtFirstFailure == fl.lateFetches = 0

\* C4: when sendPayload(p) has returned after an attempt that failed while
\* connected (non-2xx response, or the connectivity query, the credential lookup
\* or fetch threw) and the storage read and write of its saveBuffer succeeded,
\* the persisted buffer is the buffer at the call followed by p, once, and the
\* call returned false.
C4_FailedSendBuffersAtTail ==
  \A c \in Callers :
    (FailedAttempt(sp[c]) /\ Stored(sp[c])) =>
      /\ StoredBuffer(storage) = Append(StoredBuffer(sp[c].pre), sp[c].payload)
      /\ sp[c].ret = "false"

C4_Witness ==
  \E c \in Handlers :
    /\ FailedAttempt(sp[c]) /\ Stored(sp[c])
    /\ sp[c].resp = "fail"
    /\ Len(StoredBuffer(sp[c].pre)) = 1
    /\ StoredBuffer(sp[c].pre)[1] # sp[c].payload
    /\ Len(StoredBuffer(storage)) = 2

\* C5: when the connectivity query of sendPayload(p) reported disconnected, no
\* fetch is ever issued by the call, it returns false, and (the storage read and
\* write succeeding) the persisted buffer is the buffer at the call followed by p.
C5_OfflineBuffersWithoutSending ==
  \A c \in Callers :
    sp[c].net = "disconnected" =>
      /\ sp[c].resp = "none"
      /\ sp[c].pc \in {"read", "write", "done"}
      /\ sp[c].pc = "done" =>
           /\ sp[c].ret = "false"
           /\ Stored(sp[c]) =>
                StoredBuffer(storage) = Append(StoredBuffer(sp[c].pre), sp[c].payload)

C5_Witness ==
  \E c \in Handlers :
    /\ sp[c].pc = "done" /\ sp[c].net = "disconnected" /\ Stored(sp[c])
    /\ Len(StoredBuffer(storage)) = 2

\* C6: when sendPayload(p) got a success response, lastSentLocation is exactly
\* the latitude, the longitude and the capture time of the sample p was made
\* from, the persisted buffer is as it was at the call, and the call returned true.
C6_SuccessRecordsPayload ==
  \A c \in Callers :
    (sp[c].pc = "done" /\ sp[c].resp = "ok") =>
      /\ lastSentLocation =
           [lat |-> SourceOf(sp[c].payload).coords.latitude,
            lon |-> SourceOf(sp[c].payload).coords.longitude,
            timestamp |-> SourceOf(sp[c].payload).timestamp]
      /\ storage = sp[c].pre
      /\ sp[c].ret = "true"

C6_Witness ==
  \E c \in Handlers :
    /\ sp[c].pc = "done" /\ sp[c].resp = "ok"
    /\ sp[c].preLast # Null
    /\ sp[c].preLast # lastSentLocation
    /\ Len(StoredBuffer(storage)) > 0

\* C7: lastSentLocation is absent initially, and its value changes only in a
\* step in which a fetch of sendPayload resolved with success, to the state
\* made from that call's payload; every other step (deciding, buffering, flush
\* steps, clearing) leaves it unchanged.
C7_LastSentChangesOnlyOnSuccess ==
  /\ lastSentLocation = Null
  /\ [][lastSentLocation' # lastSentLocation =>
          \E c \in Callers :
            /\ sp[c].pc = "fetch"
            /\ sp'[c].resp = "ok"
            /\ lastSentLocation' = lastSentFrom(sp[c].payload)]_vars

C7_Witness ==
  \E c \in Handlers :
    /\ FailedAttempt(sp[c]) /\ Stored(sp[c])
    /\ sp[c].resp = "fail"
    /\ lastSentLocation # Null
    /\ lastSentLocation = sp[c].preLast

\* C8: whatever the connectivity query, the credential lookup, the fetch and the
\* storage read and write did (resolve or throw), a sendPayload call that has
\* completed returned true or false: it never rejects.
C8_SendPayloadNeverRejects ==
  \A c \in Callers : sp[c].pc = "done" => sp[c].ret \in {"true", "false"}

C8_Witness ==
  \E c \in Callers :
    /\ sp[c].pc = "done"
    /\ sp[c].resp = "throw"
    /\ sp[c].wr = "throw"
    /\ sp[c].ret = "false"

\* C9: no sendPayload call made by a flushBuffer run writes a payload to the
\* persisted buffer.
C9_FlushNeverRebuffers == fl.appends = 0 /\ sp["flush"].wr # "ok"

\* C10: when a flushBuffer run has ended, lastSentLocation is what it was when
\* the run started.
C10_FlushKeepsLastSent == fl.pc = "done" => lastSentLocation = fl.preLast

\* a flushBuffer run has ended that was connected, read a non-empty buffer and
\* whose sends all returned true
FullySuccessfulFlush ==
  /\ fl.pc = "done"
  /\ fl.net = "connected"
  /\ Len(fl.buffer) > 0
  /\ fl.firstFailed = 0

\* C11: when operations run one at a time and a flushBuffer run has ended whose
\* sends all succeeded, and the removal of the stored item did not throw, the run
\* has called clearBuffer(), getBufferCount() is 0, and the run issued one fetch
\* for each payload of the buffer it read, the last one for the last payload.
C11_SuccessfulFlushEmptiesBuffer ==
  (FullySuccessfulFlush /\ fl.cleared # "throw") =>
     /\ fl.cleared = "ok"
     /\ getBufferCount("ok") = 0
     /\ fl.fetches = Len(fl.buffer)
     /\ fl.i = Len(fl.buffer)

C11_Witness ==
  /\ FullySuccessfulFlush
  /\ fl.cleared = "ok"
  /\ Len(fl.buffer) = 2
  /\ fl.pre # Null

\* C12: when operations run one at a time, a flushBuffer run that has ended after
\* finding the device disconnected, or after reading an empty buffer, has issued
\* no fetch and started no sendPayload call, and the stored item and
\* lastSentLocation are what they were when the run started.
C12_FlushNoOp ==
  (/\ fl.pc = "done"
   /\ \/ fl.net = "disconnected"
      \/ fl.net = "connected" /\ fl.buffer = <<>>) =>
     /\ fl.fetches = 0
     /\ fl.i = 0
     /\ sp["flush"].pc = "idle"
     /\ storage = fl.pre
     /\ lastSentLocation = fl.preLast

C12_Witness ==
  /\ fl.pc = "done"
  /\ fl.net = "disconnected"
  /\ Len(StoredBuffer(storage)) = 2
  /\ lastSentLocation # Null

\* C13: within a flushBuffer run a sendPayload call starts only when the run's
\* previous call has returned, it is the call for the next payload of the buffer
\* the run read, in stored order starting with the first, and none is skipped.
C13_FlushSendsInOrder ==
  [][(sp'["flush"] # sp["flush"] /\ sp'["flush"].pc = "net") =>
       /\ sp["flush"].pc \in {"idle", "done"}
       /\ fl'.pc = "loop"
       /\ fl'.i = fl.i + 1
       /\ fl'.i <= Len(fl'.buffer)
       /\ sp'["flush"].payload = fl'.buffer[fl'.i]
       /\ IF fl.pc = "read" THEN fl'.i = 1 /\ fl'.buffer = StoredBuffer(storage)
                            ELSE fl'.buffer = fl.buffer]_vars

C13_Witness ==
  /\ fl.pc = "loop"
  /\ fl.i = 2
  /\ sp["flush"].pc = "fetch"
  /\ fl.buffer[1] # fl.buffer[2]
  /\ sp["flush"].payload = fl.buffer[2]

\* handler h has decided on a location; it accepted it
HasDecided(h) == sp[h].location # Null
Accepts(h) == HasDecided(h) /\ sp[h].pc # "skipped"

\* the speed the decision uses: 0 when the sample has none
SpeedOf(location) ==
  IF location.coords.speed = Null THEN Num(0) ELSE location.coords.speed

\* distance in millimetres and time in milliseconds from the state `last` to
\* the location
DistanceFrom(last, location) ==
  haversineDistance(last.lat, last.lon, location.coords.latitude,
                    location.coords.longitude)
ElapsedFrom(last, location) == location.timestamp - last.timestamp

C15_FirstSampleIsSent ==
  \A h \in Handlers : (HasDecided(h) /\ sp[h].seen = Null) => Accepts(h)

C15_Witness ==
  /\ sp["bg"].pc = "decided"
  /\ sp["bg"].seen = Null
  /\ lastSentLocation = Null
  /\ sp["bg"].location = Sample(0, 0, Null, SentAt - Minute)

\* C16: when samples are handled one at a time in the order of their timestamps,
\* a sample that has just been accepted as the second one is at least 10 m from
\* the first accepted sample and at least intervalFromSpeed(speed), so at least
\* one minute, later.
C16_ThrottleOverRun ==
  \A h \in Handlers : \A previous \in accepted :
    (/\ sp[h].pc = "net"
     /\ accepted = {previous, sp[h].payload}
     /\ previous # sp[h].payload
     /\ getTime(previous.timestamp) <= sp[h].location.timestamp) =>
       /\ DistanceFrom(lastSentFrom(previous), sp[h].location) >= 10 * 1000
       /\ ElapsedFrom(lastSentFrom(previous), sp[h].location)
            >= intervalFromSpeed(SpeedOf(sp[h].location))
       /\ ElapsedFrom(lastSentFrom(previous), sp[h].location) >= Minute

\* C17: a handler that decided on a location whose timestamp is earlier than
\* the timestamp of the state lastSentLocation held rejected it.
C17_ClockRegressionNeverSends ==
  \A h \in Handlers :
    (/\ HasDecided(h)
     /\ sp[h].seen # Null
     /\ sp[h].location.timestamp < sp[h].seen.timestamp) => ~Accepts(h)

\* 22 m away at vehicle speed, one minute before the last confirmed send
C17_Witness ==
  /\ sp["bg"].pc = "skipped"
  /\ sp["bg"].seen # Null
  /\ sp["bg"].location = Sample(0, 20, Num(600), SentAt - Minute)
  /\ sp["bg"].seen.timestamp = SentAt

\* C18: the foreground handler and the background task never both get a 2xx
\* response for samples they accepted against the same lastSentLocation.
C18_DecisionsSerialized ==
  (sp["fg"].resp = "ok" /\ sp["bg"].resp = "ok") => sp["fg"].seen # sp["bg"].seen

\* C19: when a flushBuffer run has ended during which, after its buffer read, a
\* handler's sendPayload stored a payload, every send of the run succeeded and
\* no storage call failed, that payload is in the persisted buffer and was not
\* among the payloads the run sent.
C19_AppendDuringFlushIsKept ==
  (/\ fl.pc = "done"
   /\ fl.during # Null
   /\ fl.firstFailed = 0
   /\ fl.appends = 0
   /\ faults = 0) =>
     /\ InBuffer(fl.during)
     /\ \A i \in 1..Len(fl.buffer) : fl.buffer[i] # fl.during

\* C20: when the process stops while the fetch of a payload is awaited, the
\* payload is in the persisted buffer after the restart.
C20_AbandonedSendStaysBuffered ==
  [][ProcessRestart =>
       \A p \in accepted :
         (\E c \in Callers : sp[c].pc = "fetch" /\ sp[c].payload = p) => InBuffer(p)']_vars

\* the value is a number
IsNumber(value) == DOMAIN value = {"num"}

C23_IntervalNonIncreasing ==
  \A h \in Handlers : \A slower \in SampleSpeeds :
    (/\ HasDecided(h)
     /\ IsNumber(sp[h].location.coords.speed)
     /\ IsNumber(slower)
     /\ slower.num < sp[h].location.coords.speed.num) =>
       intervalFromSpeed(slower) >= intervalFromSpeed(sp[h].location.coords.speed)

C23_Witness ==
  /\ HasDecided("fg")
  /\ sp["fg"].location.coords.speed = Num(600)

\* C24: a sample whose speed is negative, null, undefined or NaN is rejected
\* when less than 15 min have passed since the last confirmed send.
C24_UnavailableSpeedIsStationary ==
  \A h \in Handlers :
    (/\ HasDecided(h)
     /\ sp[h].seen # Null
     /\ LET speed == sp[h].location.coords.speed
        IN speed \in {Null, Undefined, NaN} \/ speed.num < 0
     /\ ElapsedFrom(sp[h].seen, sp[h].location) < 15 * Minute) => ~Accepts(h)

\* C25: the interval of a numeric speed is 30 s above 10 m/s, 60 s between 2 and
\* 10 m/s, 5 min below 2 m/s and 15 min at 0 m/s.
C25_DocumentedIntervals ==
  \A h \in Handlers :
    (HasDecided(h) /\ IsNumber(sp[h].location.coords.speed)) =>
      LET n == sp[h].location.coords.speed.num
          interval == intervalFromSpeed(Num(n))
      IN /\ n > 1000 => interval = 30000
         /\ (n > 200 /\ n < 1000) => interval = 60000
         /\ (n > 0 /\ n < 200) => interval = 300000
         /\ n = 0 => interval = 900000

\* C28: the foreground handler accepts a sample exactly when shouldSendLocation
\* is true for it, and the background task exactly when the inline decision of
\* the foreground handler is true for it.
C28_HandlersDecideAlike ==
  /\ HasDecided("fg") =>
       (Accepts("fg") <=> shouldSendLocation(sp["fg"].location, sp["fg"].seen))
  /\ HasDecided("bg") =>
       (Accepts("bg") <=> handleLocationDecision(sp["bg"].location, sp["bg"].seen))

C28_Witness ==
  /\ sp["fg"].pc = "skipped"
  /\ sp["fg"].seen # Null
  /\ sp["fg"].location = Sample(0, 20, Null, SentAt + 5 * Minute)
  /\ shouldSendLocation(sp["fg"].location, sp["fg"].seen) = FALSE

\* C26: when operations run one at a time, a saveBuffer(p) whose read and write
\* succeed makes getBuffer() return what it returned before followed by p, and
\* getBufferCount() one more; a process restart changes neither, and getBuffer()
\* returns the empty list when no item is stored.
C26_BufferSurvivesRestart ==
  [][(\A c \in Callers :
        (sp[c].pc = "write" /\ sp[c].rd = "ok" /\ sp'[c].wr = "ok") =>
           /\ getBuffer("ok")' = Append(getBuffer("ok"), sp[c].payload)
           /\ getBufferCount("ok")' = getBufferCount("ok") + 1)
     /\ (ProcessRestart =>
           /\ getBuffer("ok")' = getBuffer("ok")
           /\ getBufferCount("ok")' = getBufferCount("ok")
           /\ (storage = Null => getBuffer("ok")' = <<>>))]_vars

\* two payloads were stored in order, one send was confirmed, and the process
\* has restarted since
C26_Witness ==
  /\ Quiescent
  /\ getBuffer("ok") = <<MakePayload(LocB), MakePayload(LocC)>>
  /\ getBufferCount("ok") = 2
  /\ confirmed # {}
  /\ lastSentLocation = Null

\* C27: while the background task works on a batch, each of its steps takes the
\* first location left and leaves the rest of the batch to be processed, also
\* when that location made the try block throw; a well-formed location is
\* decided on; and a call with an error object changes neither the stored
\* buffer nor lastSentLocation and starts no send.
C27_NoErrorHaltsSampling ==
  [][/\ (batch # <<>> /\ (batch' # batch \/ pending' # pending)) =>
          /\ batch' = Tail(batch)
          /\ pending' = pending \ {Head(batch)}
          /\ WellFormed(Head(batch)) => sp'["bg"].location = Head(batch)
     /\ (batch = <<>> /\ batch' = <<>> /\ pending' # pending) =>
          /\ storage' = storage
          /\ lastSentLocation' = lastSentLocation
          /\ accepted' = accepted
          /\ sp' = sp]_vars

\* the batch started with the location that throws and the loop is at the next
\* one; an earlier batch was handled
C27_Witness ==
  /\ batch = <<LocC>>
  /\ sp["bg"].pc = "idle"
  /\ Malformed \notin pending
  /\ LocB \in pending
  /\ MakePayload(LocA) \in accepted

\* the payloads of the samples
Payloads == {MakePayload(location) : location \in Locations}

\* C21: under fair firing of the flush timer, once the environment is healthy
\* for good, a payload that is in the persisted buffer is eventually confirmed
\* and the buffer is eventually empty.
C21_BufferedIsEventuallySynced ==
  \A p \in Payloads :
    InBuffer(p) ~> (p \in confirmed /\ getBufferCount("ok") = 0)

\* C29: when samples are delivered in the order of their timestamps and
\* operations run one at a time, the timestamp in lastSentLocation never
\* decreases.
C29_LastSentTimeNeverDecreases ==
  [][(lastSentLocation # Null /\ lastSentLocation' # Null) =>
       lastSentLocation'.timestamp >= lastSentLocation.timestamp]_vars

\* C30: when the sendPayload calls of both handlers have completed, each after
\* a successful storage read and write, and no storage call failed, both
\* payloads are in the persisted buffer, which holds at least two payloads.
C30_ConcurrentAppendsKept ==
  (/\ \A h \in Handlers : sp[h].pc = "done" /\ sp[h].rd = "ok" /\ sp[h].wr = "ok"
   /\ faults = 0) =>
     /\ \A h \in Handlers : InBuffer(sp[h].payload)
     /\ getBufferCount("ok") >= 2

\* the sequence `a` is the beginning of the sequence `b`
IsPrefix(a, b) == Len(a) <= Len(b) /\ \A i \in 1..Len(a) : a[i] = b[i]

\* C31: when operations run one at a time, after a sendPayload call that called
\* saveBuffer, whatever its storage read and write did, the payloads that were
\* stored when the call started are still stored, in the same order, at the
\* beginning of the persisted buffer.
C31_AppendKeepsEarlierEntries ==
  \A c \in Callers :
    (sp[c].pc = "done" /\ sp[c].rd # "none") =>
      IsPrefix(StoredBuffer(sp[c].pre), StoredBuffer(storage))

\* C32: when no toggleTracking call is in progress and isTracking is false, no
\* foreground subscription delivers samples; and never more than one does.
C32_TrackingOffMeansNoSampling ==
  /\ (tr.pc = "idle" /\ ~tr.isTracking) => tr.watchers = 0
  /\ tr.watchers <= 1

====
